---------------------------- MODULE Spec2Model ----------------------------
(***************************************************************************)
(* Model of the uc-intg-weather driver (src/uc_intg_weather).              *)
(*                                                                         *)
(* The driver is an asyncio program: every coroutine runs without          *)
(* interruption from one await to the next, so one action of the model is  *)
(* one such run of a handler or of the update loop.  The coroutines that   *)
(* are suspended are part of the state: the update-loop tasks (tasks) and  *)
(* the calls of WeatherEntity.update_weather that wait for their HTTP      *)
(* response (inflight).                                                    *)
(*                                                                         *)
(* The driver of src/ never installs its services: setup_weather_services *)
(* raises on CONFIG.get_temperature_unit(), so WEATHER_CLIENT and          *)
(* WEATHER_ENTITY stay None.  The handlers and the update loop are         *)
(* modelled as written; the specifications run what the program reaches:   *)
(*   Spec        the process from import time: main, the set-up of the     *)
(*               services, the set-up flow and the event handlers;         *)
(*   EntitySpec  WeatherEntity.update_weather and weather_command_handler  *)
(*               called on an entity given to them, each call suspended    *)
(*               in its fetch while other calls run;                       *)
(*   LookupSpec  WeatherClient.get_current_weather applied to the weather  *)
(*               codes;                                                    *)
(*   CadenceSpec get_smart_update_interval applied to every local hour.    *)
(***************************************************************************)
EXTENDS Integers, Sequences, FiniteSets, TLC

VARIABLES
    CONFIG,          \* WeatherConfig._config: location, latitude, longitude, location_name
    config_file,     \* config.json: whether it exists, and the record it holds
    main_pc,         \* position of main(): "load", "init", "connect", "done"
    WEATHER_CLIENT,  \* driver.WEATHER_CLIENT is not None
    WEATHER_ENTITY,  \* driver.WEATHER_ENTITY is not None
    device_state,    \* last state given to API.set_device_state, "" before the first
    available,       \* API.available_entities holds the entity
    configured,      \* API.configured_entities holds the entity
    attributes,      \* the attributes of the entity: WEATHER_ENTITY.attributes, or
                     \* self.attributes for a method called on its own
    UPDATE_TASK,     \* driver.UPDATE_TASK: 0 for None, else an index of tasks
    tasks,           \* every weather_update_loop task created so far
    inflight,        \* the update_weather calls awaiting their fetch, oldest first
    current_hour,    \* the hour datetime.now().hour returned last
    pushed,          \* the calls of update_attributes the last step made
    setup,           \* the handle_setup calls suspended in their geocoding, and
                     \* what the last call to end returned or raised
    connecting,      \* the on_connect calls suspended in set_device_state
    scen,            \* history: progress through start, tick, pause, resume
    call,            \* history: the last call made to the entity or the client,
                     \* with its inputs and what it returned
    self             \* the WeatherEntity a method or the command handler is
                     \* called on, when it is called on its own

vars == << CONFIG, config_file, main_pc, WEATHER_CLIENT, WEATHER_ENTITY,
           device_state, available, configured, attributes, UPDATE_TASK, tasks,
           inflight, current_hour, pushed, setup, connecting, scen, call, self >>

-----------------------------------------------------------------------------
(* Bounds of the model.                                                    *)

\* update-loop tasks created in one run
MaxTasks == 2
\* callers of update_weather other than the loop (event handlers, commands,
\* plain calls) awaiting their fetch at the same time
MaxHandlers == 1
\* handle_setup calls suspended in their geocoding at the same time
MaxSetups == 1

\* the local hours the full model draws: a night hour and a daytime hour
SpecHours == {2, 12}
AllHours == 0 .. 23

-----------------------------------------------------------------------------
(* client.py: the lookup tables and the fetch.                             *)

WEATHER_ICONS_DAY ==
    (0 :> "sun.png") @@ (1 :> "sun-cloud.png") @@ (2 :> "sun-cloud.png") @@
    (3 :> "cloud.png") @@ (45 :> "fog.png") @@ (48 :> "fog.png") @@
    (51 :> "drizzle.png") @@ (53 :> "drizzle.png") @@ (55 :> "drizzle.png") @@
    (56 :> "drizzle.png") @@ (57 :> "drizzle.png") @@ (61 :> "rain.png") @@
    (63 :> "rain.png") @@ (65 :> "rain-heavy.png") @@ (66 :> "rain.png") @@
    (67 :> "rain-heavy.png") @@ (71 :> "snow.png") @@ (73 :> "snow.png") @@
    (75 :> "snow-heavy.png") @@ (77 :> "snow.png") @@ (80 :> "rain.png") @@
    (81 :> "rain.png") @@ (82 :> "rain-heavy.png") @@ (85 :> "snow.png") @@
    (86 :> "snow-heavy.png") @@ (95 :> "thunderstorm.png") @@
    (96 :> "thunderstorm.png") @@ (99 :> "thunderstorm.png")

WEATHER_ICONS_NIGHT ==
    (0 :> "moon.png") @@ (1 :> "moon-cloud.png") @@ (2 :> "moon-cloud.png") @@
    (3 :> "cloud.png") @@ (45 :> "fog.png") @@ (48 :> "fog.png") @@
    (51 :> "drizzle.png") @@ (53 :> "drizzle.png") @@ (55 :> "drizzle.png") @@
    (56 :> "drizzle.png") @@ (57 :> "drizzle.png") @@ (61 :> "rain.png") @@
    (63 :> "rain.png") @@ (65 :> "rain-heavy.png") @@ (66 :> "rain.png") @@
    (67 :> "rain-heavy.png") @@ (71 :> "snow.png") @@ (73 :> "snow.png") @@
    (75 :> "snow-heavy.png") @@ (77 :> "snow.png") @@ (80 :> "rain.png") @@
    (81 :> "rain.png") @@ (82 :> "rain-heavy.png") @@ (85 :> "snow.png") @@
    (86 :> "snow-heavy.png") @@ (95 :> "thunderstorm.png") @@
    (96 :> "thunderstorm.png") @@ (99 :> "thunderstorm.png")

WEATHER_DESCRIPTIONS ==
    (0 :> "Clear sky") @@ (1 :> "Mainly clear") @@ (2 :> "Partly cloudy") @@
    (3 :> "Overcast") @@ (45 :> "Fog") @@ (48 :> "Depositing rime fog") @@
    (51 :> "Light drizzle") @@ (53 :> "Moderate drizzle") @@
    (55 :> "Dense drizzle") @@ (56 :> "Light freezing drizzle") @@
    (57 :> "Dense freezing drizzle") @@ (61 :> "Slight rain") @@
    (63 :> "Moderate rain") @@ (65 :> "Heavy rain") @@
    (66 :> "Light freezing rain") @@ (67 :> "Heavy freezing rain") @@
    (71 :> "Slight snow") @@ (73 :> "Moderate snow") @@ (75 :> "Heavy snow") @@
    (77 :> "Snow grains") @@ (80 :> "Light rain showers") @@
    (81 :> "Moderate rain showers") @@ (82 :> "Heavy rain showers") @@
    (85 :> "Light snow showers") @@ (86 :> "Heavy snow showers") @@
    (95 :> "Thunderstorm") @@ (96 :> "Thunderstorm with hail") @@
    (99 :> "Thunderstorm with heavy hail")

\* dict.get(key, default)
DictGet(d, k, default) == IF k \in DOMAIN d THEN d[k] ELSE default

\* What one GET of the forecast endpoint can end in.  kind is "response",
\* "timeout" (asyncio.TimeoutError) or "error" (any other exception of the
\* transport).  A response carries its status and, when has_current, the
\* fields of its "current" object; the temperature is in tenths of a degree.
HttpOutcome(kind, status, has_current, code, temp, is_day) ==
    [kind |-> kind, status |-> status, has_current |-> has_current,
     weather_code |-> code, temperature_2m |-> temp, is_day |-> is_day]

HttpOutcomes ==
    { HttpOutcome("response", 200, TRUE, 0, 705, 1),
      HttpOutcome("response", 200, TRUE, 3, 680, 0),
      HttpOutcome("response", 200, FALSE, 0, 0, 0),
      HttpOutcome("response", 500, FALSE, 0, 0, 0),
      HttpOutcome("timeout", 0, FALSE, 0, 0, 0),
      HttpOutcome("error", 0, FALSE, 0, 0, 0) }

\* A text attribute: a literal string, or a number (in tenths) followed by a
\* suffix given by its code points.
Txt(s) == [text |-> s, num |-> 0, suffix |-> << >>]

\* f"{temperature:.1f}..F" of a temperature given in tenths of a degree: the
\* literal after the number is the three characters U+00C2 U+00B0 U+0046
FormatTemperature(tenths) == [text |-> "", num |-> tenths, suffix |-> << 194, 176, 70 >>]

None == [none |-> TRUE]
IsNone(x) == x.none

\* WeatherClient.get_current_weather: the result dict, or None
get_current_weather(r) ==
    IF r.kind = "response" /\ r.status = 200
    THEN LET weather_code == IF r.has_current THEN r.weather_code ELSE 0
             temperature  == IF r.has_current THEN r.temperature_2m ELSE 0
             is_day       == IF r.has_current THEN r.is_day ELSE 1
             icon == IF is_day = 1
                     THEN DictGet(WEATHER_ICONS_DAY, weather_code, "sun.png")
                     ELSE DictGet(WEATHER_ICONS_NIGHT, weather_code, "moon.png")
         IN  [none |-> FALSE,
              temperature |-> FormatTemperature(temperature),
              description |-> DictGet(WEATHER_DESCRIPTIONS, weather_code, "Unknown"),
              icon |-> icon,
              weather_code |-> weather_code,
              is_day |-> is_day]
    ELSE None

-----------------------------------------------------------------------------
(* weather_entity.py: the entity and its reconcile step.                   *)

\* the icons directory beside weather_entity.py when every icon the tables
\* name is installed
IconFiles ==
    { WEATHER_ICONS_DAY[c] : c \in DOMAIN WEATHER_ICONS_DAY } \cup
    { WEATHER_ICONS_NIGHT[c] : c \in DOMAIN WEATHER_ICONS_NIGHT }

\* _get_icon_base64, lines 100-118: the path it settles on for an icons
\* directory where the names entity.icons exist (os.path.exists): the icon,
\* the fallbacks sun.png and cloud.png in that order when it is absent, ""
\* when there is no fallback either
icon_path(entity, icon_filename) ==
    IF icon_filename \in entity.icons THEN icon_filename
    ELSE IF "sun.png" \in entity.icons THEN "sun.png"
    ELSE IF "cloud.png" \in entity.icons THEN "cloud.png"
    ELSE ""

\* WeatherEntity._get_icon_base64: the file whose bytes the data URL
\* encodes; "" when no path is found, and "" when open() or read() of the
\* path raises (lines 120-131), which it does for the names
\* entity.unreadable: a directory of that name, a file the process cannot
\* open.  What exists and what can be read does not change while the
\* entity lives, so the cache of lines 97-98 answers what the first call
\* answered.
get_icon_base64(entity, icon_filename) ==
    LET path == icon_path(entity, icon_filename)
    IN  IF path = "" \/ path \in entity.unreadable THEN "" ELSE path

\* WeatherEntity.__init__: initial_attributes
initial_attributes(location_name) ==
    [state |-> "ON",
     media_title |-> location_name,
     media_artist |-> Txt("Loading..."),
     media_album |-> "Fetching weather...",
     media_image_url |-> ""]

\* update_weather, success branch: new_attributes
new_attributes(entity, weather_data) ==
    [state |-> "ON",
     media_title |-> entity.location_name,
     media_artist |-> weather_data.temperature,
     media_album |-> weather_data.description,
     media_image_url |-> get_icon_base64(entity, weather_data.icon)]

\* the failure branch showing the texts of the except branch
error_attributes_as_exception(entity) ==
    [state |-> "OFF",
     media_title |-> entity.location_name,
     media_artist |-> Txt("Error"),
     media_album |-> "Update failed",
     media_image_url |-> get_icon_base64(entity, "cloud.png")]

\* update_weather, failure branch: error_attributes
error_attributes(entity) ==
    [state |-> "OFF",
     media_title |-> entity.location_name,
     media_artist |-> Txt("N/A"),
     media_album |-> "Data unavailable",
     media_image_url |-> get_icon_base64(entity, "cloud.png")]

\* update_weather after its fetch returned weather_data: the attributes it
\* writes to self.attributes
reconciled(entity, weather_data) ==
    IF IsNone(weather_data)
    THEN error_attributes(entity)
    ELSE new_attributes(entity, weather_data)

\* update_weather: whether it hands the attributes to update_attributes
PushGuard == configured

\* weather_command_handler: whether it hands the state to update_attributes
\* (hasattr(entity, '_api'))
CommandPushGuard == TRUE

-----------------------------------------------------------------------------
(* driver.py: the cadence policy and the update-loop task.                 *)

\* get_smart_update_interval with the night window opening after 23 h
get_smart_update_interval_late(current) ==
    IF current > 23 \/ current < 6 THEN 14400
    ELSE IF (6 <= current /\ current < 9) \/ (17 <= current /\ current < 20) THEN 1800
    ELSE 3600

\* get_smart_update_interval, for the hour datetime.now().hour returns
get_smart_update_interval(current) ==
    IF current >= 23 \/ current < 6 THEN 14400
    ELSE IF (6 <= current /\ current < 9) \/ (17 <= current /\ current < 20) THEN 1800
    ELSE 3600

\* A weather_update_loop task.  pc is where the coroutine is suspended:
\*   "created"     scheduled by create_task, not yet run
\*   "fetch"       inside update_weather, awaiting get_current_weather
\*   "sleep_first" in asyncio.sleep(5) after the first iteration
\*   "sleep"       in asyncio.sleep(interval)
\*   "done"        returned
\* cancel: Task.cancel() was called and the CancelledError is not yet thrown
\* into the coroutine.  prev (history) is the outcome of the task's last
\* fetch: "none", "ok" or "fail".
NewTask == [pc |-> "created", first_run |-> TRUE, delay |-> 0, cancel |-> FALSE,
            prev |-> "none"]
\* a task that returned holds nothing
DoneTask == [pc |-> "done", first_run |-> FALSE, delay |-> 0, cancel |-> FALSE,
             prev |-> "none"]

TaskIds == 1 .. Len(tasks)
Alive(i) == tasks[i].pc # "done"
AliveTasks == { i \in TaskIds : Alive(i) }

\* a cancellation waits to be thrown into its task: it runs before any
\* completion of I/O or of a timer is looked at
CancelPending == \E i \in TaskIds : tasks[i].cancel /\ Alive(i)

\* start_weather_updates, line 99: UPDATE_TASK and not UPDATE_TASK.done()
AlreadyRunning == UPDATE_TASK # 0 /\ tasks[UPDATE_TASK].pc # "done"

\* start_weather_updates: the tasks and UPDATE_TASK it leaves
started_tasks == IF AlreadyRunning THEN tasks ELSE Append(tasks, NewTask)
started_UPDATE_TASK == IF AlreadyRunning THEN UPDATE_TASK ELSE Len(tasks) + 1
CanStart == AlreadyRunning \/ Len(tasks) < MaxTasks

\* An update_weather call awaiting its fetch: who called it (kind: "loop", or
\* the handler "connect", "exit_standby", "on", "play_pause"), for a loop the
\* task, and stale: a call that began later has already written its result.
Cycle(kind, task) == [kind |-> kind, task |-> task, stale |-> FALSE]

\* the callers other than the loop that await their fetch, and the
\* on_connect calls that have still to begin theirs
HandlersInFlight ==
    Cardinality({ k \in 1 .. Len(inflight) : inflight[k].kind # "loop" }) + connecting

\* inflight without its k-th call; the calls that began before it are now stale
Completed(k) ==
    [ j \in 1 .. Len(inflight) - 1 |->
        IF j < k THEN [inflight[j] EXCEPT !.stale = TRUE] ELSE inflight[j + 1] ]

\* inflight without the calls of task i (their fetch is cancelled)
RECURSIVE Without(_, _)
Without(seq, i) ==
    IF seq = << >> THEN << >>
    ELSE IF Head(seq).kind = "loop" /\ Head(seq).task = i
         THEN Without(Tail(seq), i)
         ELSE << Head(seq) >> \o Without(Tail(seq), i)

-----------------------------------------------------------------------------
(* What a step records for the properties.                                 *)

\* pushed lists the calls of configured_entities.update_attributes of a step:
\* "all" for the five attributes, "state" for {STATE: ...}
NoPush == << >>

\* History of the events: the phases "idle", "started", "ticked", "paused",
\* "resumed" of the scenario start, first tick succeeds, pause, resume, with
\* the fetches begun since the resume and before any sleep ended; "noop" right
\* after a subscription that found the loop running; "void" otherwise.
Scen(phase, fetches) == [phase |-> phase, fetches |-> fetches]
Void == Scen("void", 0)
CountFetch == IF scen.phase = "resumed" THEN Scen("resumed", scen.fetches + 1) ELSE Void
KeepIfResumed == IF scen.phase = "resumed" THEN scen ELSE Void

-----------------------------------------------------------------------------
(* The values of the state.                                                *)

\* a text the user types is a sequence of characters
Zip62701 == << "6", "2", "7", "0", "1" >>

\* a config.json written by a completed set-up (coordinates in tenths)
StoredLocation ==
    [location |-> Zip62701, latitude |-> 398, longitude |-> -896,
     location_name |-> "Springfield, Illinois"]

\* nothing has been called yet
NoCall == [op |-> "none"]

\* no handle_setup call is suspended and none has ended; unit is the
\* temperature unit a completed set-up chose
NoSetup == [pending |-> << >>, unit |-> "", result |-> ""]

NoEntity == [none |-> TRUE, location_name |-> "", icons |-> {}, unreadable |-> {}]
\* WeatherEntity(entity_id, name, WEATHER_CLIENT, location_name, API), with
\* the names that exist in its icons directory and those of them that
\* cannot be opened and read
WeatherEntity(location_name, icons, unreadable) ==
    [none |-> FALSE, location_name |-> location_name, icons |-> icons,
     unreadable |-> unreadable]

Serving == main_pc \in {"connect", "done"}
HasEntity == ~WEATHER_ENTITY.none

bootVars == << CONFIG, config_file, main_pc, setup, connecting, call, self >>
serviceVars == << WEATHER_CLIENT, WEATHER_ENTITY, available >>

-----------------------------------------------------------------------------
(* weather_entity.py: update_weather and weather_command_handler, in the   *)
(* pieces that run without an await.                                       *)

\* update_weather, the except branch: error_attributes
exception_attributes(entity) ==
    [state |-> "OFF",
     media_title |-> entity.location_name,
     media_artist |-> Txt("Error"),
     media_album |-> "Update failed",
     media_image_url |-> get_icon_base64(entity, "cloud.png")]

\* configured_entities.contains, which update_weather calls in its try block
\* and again in its except branch: it answers ("none"), raises the first
\* time it is called ("once") or raises every time ("always")
Faults == {"none", "once", "always"}

\* update_weather resumed with the weather_data of its fetch: the attributes
\* it leaves.  When contains raises, the except branch overwrites what the
\* try block wrote.
update_weather(entity, weather_data, fault) ==
    IF fault # "none"
    THEN exception_attributes(entity)
    ELSE reconciled(entity, weather_data)

AllPush == IF PushGuard THEN << "all" >> ELSE NoPush

\* update_weather: its update_attributes calls; none is reached when
\* contains raises in the except branch too
update_weather_pushes(fault) == IF fault = "always" THEN NoPush ELSE AllPush

\* update_weather: whether an exception leaves it (raised in the except
\* branch, lines 195-196)
update_weather_raises(fault) == fault = "always"

Commands == {"on", "off", "play_pause", "toggle"}

\* PLAY_PAUSE, line 42
toggled(current_state) == IF current_state = "ON" THEN "OFF" ELSE "ON"

\* the pushes of a command: update_attributes(entity.id, {STATE: ...})
CommandPushes == IF CommandPushGuard THEN << "state" >> ELSE NoPush

\* weather_command_handler whose PLAY_PAUSE never awaits update_weather
weather_command_handler_nofetch(cmd, attrs) ==
    CASE cmd = "on" ->
           [attributes |-> attrs, pushes |-> NoPush, awaits |-> TRUE, status |-> ""]
      [] cmd = "off" ->
           [attributes |-> [attrs EXCEPT !.state = "OFF"],
            pushes |-> CommandPushes, awaits |-> FALSE, status |-> "OK"]
      [] cmd = "play_pause" ->
           [attributes |-> [attrs EXCEPT !.state = toggled(attrs.state)],
            pushes |-> CommandPushes, awaits |-> FALSE, status |-> "OK"]
      [] OTHER ->
           [attributes |-> attrs, pushes |-> NoPush, awaits |-> FALSE,
            status |-> "NOT_IMPLEMENTED"]

\* weather_command_handler from its call to its first await, or to its
\* return when it awaits nothing: the attributes it leaves, its
\* update_attributes calls, whether it is now suspended in update_weather,
\* and the status code it returned
weather_command_handler(cmd, attrs) ==
    CASE cmd = "on" ->
           [attributes |-> attrs, pushes |-> NoPush, awaits |-> TRUE, status |-> ""]
      [] cmd = "off" ->
           [attributes |-> [attrs EXCEPT !.state = "OFF"],
            pushes |-> CommandPushes, awaits |-> FALSE, status |-> "OK"]
      [] cmd = "play_pause" ->
           LET new_state == toggled(attrs.state)
           IN  [attributes |-> [attrs EXCEPT !.state = new_state],
                pushes |-> CommandPushes,
                awaits |-> new_state = "ON",
                status |-> IF new_state = "ON" THEN "" ELSE "OK"]
      [] OTHER ->
           [attributes |-> attrs, pushes |-> NoPush, awaits |-> FALSE,
            status |-> "NOT_IMPLEMENTED"]

\* A caller suspended in update_weather (kind: "update_weather" for a plain
\* call, or the handler "connect", "exit_standby", "on", "play_pause") is
\* resumed when the fetch ends in r: update_weather runs to its end, and
\* unless an exception leaves it the caller runs on: ON sets the state ON
\* and pushes it, the commands return OK
resumed(kind, entity, r, fault) ==
    LET weather_data == get_current_weather(r)
        attrs == update_weather(entity, weather_data, fault)
        pushes == update_weather_pushes(fault)
        raised == update_weather_raises(fault)
    IN  IF kind = "on" /\ ~raised
        THEN [attributes |-> [attrs EXCEPT !.state = "ON"],
              pushes |-> pushes \o CommandPushes,
              raised |-> FALSE, status |-> "OK"]
        ELSE [attributes |-> attrs, pushes |-> pushes, raised |-> raised,
              status |-> IF kind = "play_pause" /\ ~raised THEN "OK" ELSE ""]

-----------------------------------------------------------------------------
(* weather_update_loop                                                     *)

\* The task once update_weather has returned, lines 116-123, whatever the
\* outcome of its fetch: the first iteration sleeps 5 seconds, the later ones
\* the interval of the hour h that datetime.now() gives
after_cycle(t, outcome, h) ==
    IF t.first_run
    THEN [t EXCEPT !.pc = "sleep_first", !.first_run = FALSE, !.delay = 5,
                   !.prev = outcome]
    ELSE [t EXCEPT !.pc = "sleep", !.delay = get_smart_update_interval(h),
                   !.prev = outcome]

\* the top of the loop body: if WEATHER_ENTITY: await update_weather()
LoopIterate(i) ==
    /\ tasks' = [tasks EXCEPT ![i].pc = "fetch"]
    /\ inflight' = Append(inflight, Cycle("loop", i))
    /\ pushed' = NoPush
    /\ UNCHANGED << bootVars, serviceVars, device_state, configured, attributes,
                    UPDATE_TASK, current_hour >>

\* the task runs for the first time
LoopFirstStep(i) ==
    /\ i \in TaskIds
    /\ tasks[i].pc = "created"
    /\ ~tasks[i].cancel
    /\ HasEntity
    /\ LoopIterate(i)
    /\ scen' = IF scen.phase = "started" THEN scen ELSE CountFetch

\* a sleep of the task ends
LoopWake(i) ==
    /\ i \in TaskIds
    /\ tasks[i].pc \in {"sleep_first", "sleep", "cooldown"}
    /\ ~CancelPending
    /\ HasEntity
    /\ LoopIterate(i)
    /\ scen' = Void

\* the task's fetch ends in r: update_weather reconciles and returns, and the
\* loop goes to sleep, lines 117-123; the hour is drawn from Hours
LoopFetchDone(k, r, Hours) ==
    /\ k \in 1 .. Len(inflight)
    /\ inflight[k].kind = "loop"
    /\ ~CancelPending
    /\ LET e == inflight[k]
           t == tasks[e.task]
           weather_data == get_current_weather(r)
           attrs == reconciled(WEATHER_ENTITY, weather_data)
           outcome == IF IsNone(weather_data) THEN "fail" ELSE "ok"
       IN  /\ attributes' = attrs
           /\ pushed' = IF PushGuard THEN << "all" >> ELSE NoPush
           /\ inflight' = Completed(k)
           /\ IF t.first_run
              THEN /\ tasks' = [tasks EXCEPT ![e.task] =
                                  after_cycle(t, outcome, current_hour)]
                   /\ UNCHANGED current_hour
              ELSE \E h \in Hours :
                   /\ tasks' = [tasks EXCEPT ![e.task] = after_cycle(t, outcome, h)]
                   /\ current_hour' = h
           /\ scen' = IF scen.phase = "started" /\ outcome = "ok" /\ t.first_run
                      THEN Scen("ticked", 0)
                      ELSE KeepIfResumed
    /\ UNCHANGED << bootVars, serviceVars, device_state, configured, UPDATE_TASK >>

\* the CancelledError of Task.cancel() is thrown into the task where it is
\* suspended: in a sleep or in the fetch it reaches line 125 and the loop
\* breaks; a task that never ran is cancelled as it is
CancelDeliver(i) ==
    /\ i \in TaskIds
    /\ tasks[i].cancel
    /\ Alive(i)
    /\ tasks' = [tasks EXCEPT ![i] = DoneTask]
    /\ inflight' = Without(inflight, i)
    /\ pushed' = NoPush
    /\ scen' = IF scen.phase = "paused" THEN scen ELSE Void
    /\ UNCHANGED << bootVars, serviceVars, device_state, configured, attributes,
                    UPDATE_TASK, current_hour >>

-----------------------------------------------------------------------------
(* The event handlers of driver.py, for a driver whose services are set up *)

\* on_connect, lines 163-167, up to its first suspension: report CONNECTED
\* (await API.set_device_state), then if WEATHER_ENTITY: await
\* update_weather().  suspends says whether set_device_state, which is
\* ucapi's, gives the event loop a turn before it returns; when it does not,
\* on_connect runs on to the await of its fetch.
OnConnect(suspends) ==
    /\ Serving
    /\ WEATHER_CLIENT /\ HasEntity
    /\ HandlersInFlight < MaxHandlers
    /\ device_state' = "CONNECTED"
    /\ IF suspends
       THEN /\ connecting' = connecting + 1
            /\ UNCHANGED inflight
       ELSE /\ inflight' = Append(inflight, Cycle("connect", 0))
            /\ UNCHANGED connecting
    /\ pushed' = NoPush
    /\ scen' = Void
    /\ UNCHANGED << CONFIG, config_file, main_pc, setup, call, self, serviceVars,
                    configured, attributes, UPDATE_TASK, tasks, current_hour >>

\* on_connect resumed after set_device_state, lines 165-167: if
\* WEATHER_ENTITY: await update_weather()
OnConnectResumed ==
    /\ connecting > 0
    /\ connecting' = connecting - 1
    /\ inflight' = IF HasEntity THEN Append(inflight, Cycle("connect", 0)) ELSE inflight
    /\ pushed' = NoPush
    /\ scen' = Void
    /\ UNCHANGED << CONFIG, config_file, main_pc, setup, call, self, serviceVars,
                    device_state, configured, attributes, UPDATE_TASK, tasks,
                    current_hour >>

\* on_disconnect: logs
OnDisconnect ==
    /\ Serving
    /\ UNCHANGED vars

\* on_enter_standby: cancel the update task unless it is done
OnEnterStandby ==
    /\ Serving
    /\ tasks' = IF UPDATE_TASK # 0 /\ tasks[UPDATE_TASK].pc # "done"
                THEN [tasks EXCEPT ![UPDATE_TASK].cancel = TRUE]
                ELSE tasks
    /\ pushed' = NoPush
    /\ scen' = IF /\ scen.phase = "ticked"
                  /\ UPDATE_TASK # 0
                  /\ tasks[UPDATE_TASK].pc = "sleep_first"
               THEN Scen("paused", 0)
               ELSE Void
    /\ UNCHANGED << bootVars, serviceVars, device_state, configured, attributes,
                    UPDATE_TASK, inflight, current_hour >>

\* on_exit_standby, up to its await: if WEATHER_ENTITY: await update_weather()
OnExitStandby ==
    /\ Serving
    /\ HasEntity
    /\ HandlersInFlight < MaxHandlers
    /\ inflight' = Append(inflight, Cycle("exit_standby", 0))
    /\ pushed' = NoPush
    /\ scen' = IF scen.phase = "paused" /\ ~CancelPending
               THEN Scen("resumed", 1)
               ELSE Void
    /\ UNCHANGED << bootVars, serviceVars, device_state, configured, attributes,
                    UPDATE_TASK, tasks, current_hour >>

\* on_subscribe_entities: hit says whether entity_ids names the entity
OnSubscribe(hit) ==
    /\ Serving
    /\ IF HasEntity /\ hit
       THEN /\ CanStart
            /\ configured' = TRUE
            /\ tasks' = started_tasks
            /\ UPDATE_TASK' = started_UPDATE_TASK
            /\ pushed' = NoPush
            /\ scen' = IF AlreadyRunning THEN Scen("noop", 0)
                       ELSE IF scen.phase = "idle" THEN Scen("started", 0)
                       ELSE Void
       ELSE UNCHANGED << configured, tasks, UPDATE_TASK, pushed, scen >>
    /\ UNCHANGED << bootVars, serviceVars, device_state, attributes, inflight,
                    current_hour >>

\* on_unsubscribe_entities: logs
OnUnsubscribe ==
    /\ Serving
    /\ UNCHANGED vars

-----------------------------------------------------------------------------
(* weather_entity.py: weather_command_handler.  The host library hands a   *)
(* command to the handler of a configured entity.                          *)

\* the handler up to its first await, or to its return
Command(cmd) ==
    /\ Serving
    /\ HasEntity
    /\ configured
    /\ LET h == weather_command_handler(cmd, attributes)
       IN  /\ h.awaits => HandlersInFlight < MaxHandlers
           /\ attributes' = h.attributes
           /\ pushed' = h.pushes
           /\ inflight' = IF h.awaits THEN Append(inflight, Cycle(cmd, 0)) ELSE inflight
    /\ scen' = Void
    /\ UNCHANGED << bootVars, serviceVars, device_state, configured, UPDATE_TASK,
                    tasks, current_hour >>

\* The fetch of a handler's update_weather ends in r, contains behaving as
\* fault says: update_weather runs to its end, and unless an exception leaves
\* it the handler runs to its own end:
\*   on_connect, PLAY_PAUSE   return
\*   on_exit_standby          start_weather_updates()
\*   ON                       set the state ON and push it
\* An exception that leaves update_weather leaves the handler too.
HandlerFetchDone(k, r, fault) ==
    /\ k \in 1 .. Len(inflight)
    /\ inflight[k].kind # "loop"
    /\ LET e == inflight[k]
           h == resumed(e.kind, WEATHER_ENTITY, r, fault)
       IN  /\ inflight' = Completed(k)
           /\ attributes' = h.attributes
           /\ pushed' = h.pushes
           /\ IF e.kind = "exit_standby" /\ ~h.raised
              THEN /\ CanStart
                   /\ tasks' = started_tasks
                   /\ UPDATE_TASK' = started_UPDATE_TASK
              ELSE UNCHANGED << tasks, UPDATE_TASK >>
    /\ scen' = KeepIfResumed
    /\ UNCHANGED << bootVars, serviceVars, device_state, configured, current_hour >>

-----------------------------------------------------------------------------
(* Boot and set-up: main, connect_and_start_weather, setup_weather_services *)
(* and handle_setup, from the import of driver.py.                          *)

\* WeatherConfig.__init__, the _config dictionary
DefaultConfig == [location |-> << >>, latitude |-> 0, longitude |-> 0, location_name |-> ""]

\* a config.json whose latitude is 0.0
EquatorLocation == [StoredLocation EXCEPT !.latitude = 0]

\* config.json when the process starts: absent, or the JSON value it holds
\* (json) with the keys dict.update writes from it (data): a complete
\* object, one with a latitude of 0.0, one holding the location alone, an
\* array of key/value pairs such as [["latitude", 40]], a value dict.update
\* rejects
NoFile == [exists |-> FALSE, json |-> "none", data |-> << >>]

ConfigFiles ==
    { NoFile,
      [exists |-> TRUE, json |-> "object", data |-> StoredLocation],
      [exists |-> TRUE, json |-> "object", data |-> EquatorLocation],
      [exists |-> TRUE, json |-> "object", data |-> [location |-> Zip62701]],
      [exists |-> TRUE, json |-> "array", data |-> [latitude |-> 40]],
      [exists |-> TRUE, json |-> "scalar", data |-> << >>] }

\* WeatherConfig.load: self._config.update(loaded_config), the keys read
\* from the file replace those of the configuration and the others stay; a
\* value update cannot read raises, which is caught, and changes nothing
load(config, file) ==
    IF file.exists /\ file.data # << >> THEN file.data @@ config ELSE config

\* WeatherConfig.is_configured: location, latitude and longitude are all truthy
is_configured(config) ==
    config.location # << >> /\ config.latitude # 0 /\ config.longitude # 0

\* the methods class WeatherConfig defines
WeatherConfigMethods ==
    { "load", "save", "is_configured", "set_location", "get_latitude",
      "get_longitude", "get_location_name", "update_last_update" }

\* WeatherClient.__init__(self, latitude, longitude)
WeatherClientInitArgs == 2

\* a call with n positional arguments to a function of m parameters
Accepts(m, n) == m = n

NoAttributes ==
    [state |-> "", media_title |-> "", media_artist |-> Txt(""), media_album |-> "",
     media_image_url |-> ""]

\* setup_weather_services: the client is built from get_latitude(),
\* get_longitude() and get_temperature_unit(), then the entity; whatever is
\* raised on the way is caught and False returned
setup_weather_services ==
    IF "get_temperature_unit" \in WeatherConfigMethods /\ Accepts(WeatherClientInitArgs, 3)
    THEN [ok |-> TRUE, WEATHER_CLIENT |-> TRUE,
          WEATHER_ENTITY |-> WeatherEntity(CONFIG.location_name, IconFiles, {}), available |-> TRUE,
          attributes |-> initial_attributes(CONFIG.location_name)]
    ELSE [ok |-> FALSE, WEATHER_CLIENT |-> WEATHER_CLIENT,
          WEATHER_ENTITY |-> WEATHER_ENTITY, available |-> available,
          attributes |-> attributes]

\* connect_and_start_weather, lines 139-157: what it leaves behind
connect_and_start_weather ==
    LET s == setup_weather_services
    IN  [device_state |-> IF is_configured(CONFIG) /\ s.ok THEN "CONNECTED" ELSE "ERROR",
         services |-> IF is_configured(CONFIG) THEN s
                      ELSE [s EXCEPT !.WEATHER_CLIENT = WEATHER_CLIENT,
                                     !.WEATHER_ENTITY = WEATHER_ENTITY,
                                     !.available = available,
                                     !.attributes = attributes],
         tasks |-> tasks,
         UPDATE_TASK |-> UPDATE_TASK]

ConnectAndStart ==
    LET c == connect_and_start_weather
    IN  /\ device_state' = c.device_state
        /\ WEATHER_CLIENT' = c.services.WEATHER_CLIENT
        /\ WEATHER_ENTITY' = c.services.WEATHER_ENTITY
        /\ available' = c.services.available
        /\ attributes' = c.services.attributes
        /\ tasks' = c.tasks
        /\ UPDATE_TASK' = c.UPDATE_TASK

Init ==
    /\ CONFIG = DefaultConfig
    /\ config_file \in ConfigFiles
    /\ main_pc = "load"
    /\ WEATHER_CLIENT = FALSE
    /\ WEATHER_ENTITY = NoEntity
    /\ device_state = ""
    /\ available = FALSE
    /\ configured = FALSE
    /\ attributes = NoAttributes
    /\ UPDATE_TASK = 0
    /\ tasks = << >>
    /\ inflight = << >>
    /\ current_hour = 0
    /\ pushed = NoPush
    /\ setup = NoSetup
    /\ connecting = 0
    /\ scen = Scen("idle", 0)
    /\ call = NoCall
    /\ self = NoEntity

loopVars == << UPDATE_TASK, tasks, inflight, current_hour, pushed, scen >>

\* main: await CONFIG.load()
MainLoad ==
    /\ main_pc = "load"
    /\ CONFIG' = load(CONFIG, config_file)
    /\ main_pc' = "init"
    /\ UNCHANGED << config_file, self, connecting, setup, call, serviceVars, device_state, configured,
                    attributes, loopVars >>

\* main: await API.init(driver_path, handle_setup)
MainInit ==
    /\ main_pc = "init"
    /\ main_pc' = "connect"
    /\ UNCHANGED << CONFIG, config_file, self, connecting, setup, call, serviceVars, device_state,
                    configured, attributes, loopVars >>

\* main, lines 331-336: auto-connect on a complete configuration, else
\* report DISCONNECTED
MainConnect ==
    /\ main_pc = "connect"
    /\ main_pc' = "done"
    /\ IF is_configured(CONFIG)
       THEN ConnectAndStart
       ELSE /\ device_state' = "DISCONNECTED"
            /\ UNCHANGED << serviceVars, attributes, tasks, UPDATE_TASK >>
    /\ UNCHANGED << CONFIG, config_file, self, connecting, setup, call, configured, inflight,
                    current_hour, pushed, scen >>

\* on_connect, lines 169-171: no client or no entity yet
OnConnectNotReady ==
    /\ Serving
    /\ ~(WEATHER_CLIENT /\ HasEntity)
    /\ ConnectAndStart
    /\ UNCHANGED << bootVars, configured, inflight, current_hour, pushed, scen >>

\* on_exit_standby without an entity: it logs and returns, no update and no
\* start_weather_updates (call records that it was handled)
OnExitStandbyNoEntity ==
    /\ Serving
    /\ ~HasEntity
    /\ call' = [op |-> "on_exit_standby", main |-> main_pc,
                is_configured |-> is_configured(CONFIG)]
    /\ UNCHANGED << CONFIG, config_file, self, connecting, main_pc, setup, serviceVars, device_state,
                    configured, attributes, loopVars >>

\* str.strip
\* str.strip() removes the characters for which str.isspace() holds; a
\* character without a plain spelling is written by its code point
Whitespace ==
    { " ", "\t", "\n", "\r", "U+000B", "U+000C", "U+001C", "U+001D", "U+001E",
      "U+001F", "U+0085", "U+00A0", "U+1680", "U+2000", "U+2001", "U+2002",
      "U+2003", "U+2004", "U+2005", "U+2006", "U+2007", "U+2008", "U+2009",
      "U+200A", "U+2028", "U+2029", "U+202F", "U+205F", "U+3000" }
RECURSIVE LStrip(_)
LStrip(str) ==
    IF str # << >> /\ Head(str) \in Whitespace THEN LStrip(Tail(str)) ELSE str
RECURSIVE RStrip(_)
RStrip(str) ==
    IF str # << >> /\ str[Len(str)] \in Whitespace
    THEN RStrip(SubSeq(str, 1, Len(str) - 1))
    ELSE str
strip(str) == RStrip(LStrip(str))

\* \d of a str pattern: the decimal digits of Unicode (category Nd), ten
\* ASCII digits and 65 other families of ten, each written by its code
\* points
Digits ==
    { "0", "1", "2", "3", "4", "5", "6", "7", "8", "9" } \cup
    { "U+0660", "U+0661", "U+0662", "U+0663", "U+0664",
      "U+0665", "U+0666", "U+0667", "U+0668", "U+0669" } \cup
    { "U+06F0", "U+06F1", "U+06F2", "U+06F3", "U+06F4",
      "U+06F5", "U+06F6", "U+06F7", "U+06F8", "U+06F9" } \cup
    { "U+07C0", "U+07C1", "U+07C2", "U+07C3", "U+07C4",
      "U+07C5", "U+07C6", "U+07C7", "U+07C8", "U+07C9" } \cup
    { "U+0966", "U+0967", "U+0968", "U+0969", "U+096A",
      "U+096B", "U+096C", "U+096D", "U+096E", "U+096F" } \cup
    { "U+09E6", "U+09E7", "U+09E8", "U+09E9", "U+09EA",
      "U+09EB", "U+09EC", "U+09ED", "U+09EE", "U+09EF" } \cup
    { "U+0A66", "U+0A67", "U+0A68", "U+0A69", "U+0A6A",
      "U+0A6B", "U+0A6C", "U+0A6D", "U+0A6E", "U+0A6F" } \cup
    { "U+0AE6", "U+0AE7", "U+0AE8", "U+0AE9", "U+0AEA",
      "U+0AEB", "U+0AEC", "U+0AED", "U+0AEE", "U+0AEF" } \cup
    { "U+0B66", "U+0B67", "U+0B68", "U+0B69", "U+0B6A",
      "U+0B6B", "U+0B6C", "U+0B6D", "U+0B6E", "U+0B6F" } \cup
    { "U+0BE6", "U+0BE7", "U+0BE8", "U+0BE9", "U+0BEA",
      "U+0BEB", "U+0BEC", "U+0BED", "U+0BEE", "U+0BEF" } \cup
    { "U+0C66", "U+0C67", "U+0C68", "U+0C69", "U+0C6A",
      "U+0C6B", "U+0C6C", "U+0C6D", "U+0C6E", "U+0C6F" } \cup
    { "U+0CE6", "U+0CE7", "U+0CE8", "U+0CE9", "U+0CEA",
      "U+0CEB", "U+0CEC", "U+0CED", "U+0CEE", "U+0CEF" } \cup
    { "U+0D66", "U+0D67", "U+0D68", "U+0D69", "U+0D6A",
      "U+0D6B", "U+0D6C", "U+0D6D", "U+0D6E", "U+0D6F" } \cup
    { "U+0DE6", "U+0DE7", "U+0DE8", "U+0DE9", "U+0DEA",
      "U+0DEB", "U+0DEC", "U+0DED", "U+0DEE", "U+0DEF" } \cup
    { "U+0E50", "U+0E51", "U+0E52", "U+0E53", "U+0E54",
      "U+0E55", "U+0E56", "U+0E57", "U+0E58", "U+0E59" } \cup
    { "U+0ED0", "U+0ED1", "U+0ED2", "U+0ED3", "U+0ED4",
      "U+0ED5", "U+0ED6", "U+0ED7", "U+0ED8", "U+0ED9" } \cup
    { "U+0F20", "U+0F21", "U+0F22", "U+0F23", "U+0F24",
      "U+0F25", "U+0F26", "U+0F27", "U+0F28", "U+0F29" } \cup
    { "U+1040", "U+1041", "U+1042", "U+1043", "U+1044",
      "U+1045", "U+1046", "U+1047", "U+1048", "U+1049" } \cup
    { "U+1090", "U+1091", "U+1092", "U+1093", "U+1094",
      "U+1095", "U+1096", "U+1097", "U+1098", "U+1099" } \cup
    { "U+17E0", "U+17E1", "U+17E2", "U+17E3", "U+17E4",
      "U+17E5", "U+17E6", "U+17E7", "U+17E8", "U+17E9" } \cup
    { "U+1810", "U+1811", "U+1812", "U+1813", "U+1814",
      "U+1815", "U+1816", "U+1817", "U+1818", "U+1819" } \cup
    { "U+1946", "U+1947", "U+1948", "U+1949", "U+194A",
      "U+194B", "U+194C", "U+194D", "U+194E", "U+194F" } \cup
    { "U+19D0", "U+19D1", "U+19D2", "U+19D3", "U+19D4",
      "U+19D5", "U+19D6", "U+19D7", "U+19D8", "U+19D9" } \cup
    { "U+1A80", "U+1A81", "U+1A82", "U+1A83", "U+1A84",
      "U+1A85", "U+1A86", "U+1A87", "U+1A88", "U+1A89" } \cup
    { "U+1A90", "U+1A91", "U+1A92", "U+1A93", "U+1A94",
      "U+1A95", "U+1A96", "U+1A97", "U+1A98", "U+1A99" } \cup
    { "U+1B50", "U+1B51", "U+1B52", "U+1B53", "U+1B54",
      "U+1B55", "U+1B56", "U+1B57", "U+1B58", "U+1B59" } \cup
    { "U+1BB0", "U+1BB1", "U+1BB2", "U+1BB3", "U+1BB4",
      "U+1BB5", "U+1BB6", "U+1BB7", "U+1BB8", "U+1BB9" } \cup
    { "U+1C40", "U+1C41", "U+1C42", "U+1C43", "U+1C44",
      "U+1C45", "U+1C46", "U+1C47", "U+1C48", "U+1C49" } \cup
    { "U+1C50", "U+1C51", "U+1C52", "U+1C53", "U+1C54",
      "U+1C55", "U+1C56", "U+1C57", "U+1C58", "U+1C59" } \cup
    { "U+A620", "U+A621", "U+A622", "U+A623", "U+A624",
      "U+A625", "U+A626", "U+A627", "U+A628", "U+A629" } \cup
    { "U+A8D0", "U+A8D1", "U+A8D2", "U+A8D3", "U+A8D4",
      "U+A8D5", "U+A8D6", "U+A8D7", "U+A8D8", "U+A8D9" } \cup
    { "U+A900", "U+A901", "U+A902", "U+A903", "U+A904",
      "U+A905", "U+A906", "U+A907", "U+A908", "U+A909" } \cup
    { "U+A9D0", "U+A9D1", "U+A9D2", "U+A9D3", "U+A9D4",
      "U+A9D5", "U+A9D6", "U+A9D7", "U+A9D8", "U+A9D9" } \cup
    { "U+A9F0", "U+A9F1", "U+A9F2", "U+A9F3", "U+A9F4",
      "U+A9F5", "U+A9F6", "U+A9F7", "U+A9F8", "U+A9F9" } \cup
    { "U+AA50", "U+AA51", "U+AA52", "U+AA53", "U+AA54",
      "U+AA55", "U+AA56", "U+AA57", "U+AA58", "U+AA59" } \cup
    { "U+ABF0", "U+ABF1", "U+ABF2", "U+ABF3", "U+ABF4",
      "U+ABF5", "U+ABF6", "U+ABF7", "U+ABF8", "U+ABF9" } \cup
    { "U+FF10", "U+FF11", "U+FF12", "U+FF13", "U+FF14",
      "U+FF15", "U+FF16", "U+FF17", "U+FF18", "U+FF19" } \cup
    { "U+104A0", "U+104A1", "U+104A2", "U+104A3", "U+104A4",
      "U+104A5", "U+104A6", "U+104A7", "U+104A8", "U+104A9" } \cup
    { "U+10D30", "U+10D31", "U+10D32", "U+10D33", "U+10D34",
      "U+10D35", "U+10D36", "U+10D37", "U+10D38", "U+10D39" } \cup
    { "U+11066", "U+11067", "U+11068", "U+11069", "U+1106A",
      "U+1106B", "U+1106C", "U+1106D", "U+1106E", "U+1106F" } \cup
    { "U+110F0", "U+110F1", "U+110F2", "U+110F3", "U+110F4",
      "U+110F5", "U+110F6", "U+110F7", "U+110F8", "U+110F9" } \cup
    { "U+11136", "U+11137", "U+11138", "U+11139", "U+1113A",
      "U+1113B", "U+1113C", "U+1113D", "U+1113E", "U+1113F" } \cup
    { "U+111D0", "U+111D1", "U+111D2", "U+111D3", "U+111D4",
      "U+111D5", "U+111D6", "U+111D7", "U+111D8", "U+111D9" } \cup
    { "U+112F0", "U+112F1", "U+112F2", "U+112F3", "U+112F4",
      "U+112F5", "U+112F6", "U+112F7", "U+112F8", "U+112F9" } \cup
    { "U+11450", "U+11451", "U+11452", "U+11453", "U+11454",
      "U+11455", "U+11456", "U+11457", "U+11458", "U+11459" } \cup
    { "U+114D0", "U+114D1", "U+114D2", "U+114D3", "U+114D4",
      "U+114D5", "U+114D6", "U+114D7", "U+114D8", "U+114D9" } \cup
    { "U+11650", "U+11651", "U+11652", "U+11653", "U+11654",
      "U+11655", "U+11656", "U+11657", "U+11658", "U+11659" } \cup
    { "U+116C0", "U+116C1", "U+116C2", "U+116C3", "U+116C4",
      "U+116C5", "U+116C6", "U+116C7", "U+116C8", "U+116C9" } \cup
    { "U+11730", "U+11731", "U+11732", "U+11733", "U+11734",
      "U+11735", "U+11736", "U+11737", "U+11738", "U+11739" } \cup
    { "U+118E0", "U+118E1", "U+118E2", "U+118E3", "U+118E4",
      "U+118E5", "U+118E6", "U+118E7", "U+118E8", "U+118E9" } \cup
    { "U+11950", "U+11951", "U+11952", "U+11953", "U+11954",
      "U+11955", "U+11956", "U+11957", "U+11958", "U+11959" } \cup
    { "U+11C50", "U+11C51", "U+11C52", "U+11C53", "U+11C54",
      "U+11C55", "U+11C56", "U+11C57", "U+11C58", "U+11C59" } \cup
    { "U+11D50", "U+11D51", "U+11D52", "U+11D53", "U+11D54",
      "U+11D55", "U+11D56", "U+11D57", "U+11D58", "U+11D59" } \cup
    { "U+11DA0", "U+11DA1", "U+11DA2", "U+11DA3", "U+11DA4",
      "U+11DA5", "U+11DA6", "U+11DA7", "U+11DA8", "U+11DA9" } \cup
    { "U+16A60", "U+16A61", "U+16A62", "U+16A63", "U+16A64",
      "U+16A65", "U+16A66", "U+16A67", "U+16A68", "U+16A69" } \cup
    { "U+16AC0", "U+16AC1", "U+16AC2", "U+16AC3", "U+16AC4",
      "U+16AC5", "U+16AC6", "U+16AC7", "U+16AC8", "U+16AC9" } \cup
    { "U+16B50", "U+16B51", "U+16B52", "U+16B53", "U+16B54",
      "U+16B55", "U+16B56", "U+16B57", "U+16B58", "U+16B59" } \cup
    { "U+1D7CE", "U+1D7CF", "U+1D7D0", "U+1D7D1", "U+1D7D2",
      "U+1D7D3", "U+1D7D4", "U+1D7D5", "U+1D7D6", "U+1D7D7" } \cup
    { "U+1D7D8", "U+1D7D9", "U+1D7DA", "U+1D7DB", "U+1D7DC",
      "U+1D7DD", "U+1D7DE", "U+1D7DF", "U+1D7E0", "U+1D7E1" } \cup
    { "U+1D7E2", "U+1D7E3", "U+1D7E4", "U+1D7E5", "U+1D7E6",
      "U+1D7E7", "U+1D7E8", "U+1D7E9", "U+1D7EA", "U+1D7EB" } \cup
    { "U+1D7EC", "U+1D7ED", "U+1D7EE", "U+1D7EF", "U+1D7F0",
      "U+1D7F1", "U+1D7F2", "U+1D7F3", "U+1D7F4", "U+1D7F5" } \cup
    { "U+1D7F6", "U+1D7F7", "U+1D7F8", "U+1D7F9", "U+1D7FA",
      "U+1D7FB", "U+1D7FC", "U+1D7FD", "U+1D7FE", "U+1D7FF" } \cup
    { "U+1E140", "U+1E141", "U+1E142", "U+1E143", "U+1E144",
      "U+1E145", "U+1E146", "U+1E147", "U+1E148", "U+1E149" } \cup
    { "U+1E2F0", "U+1E2F1", "U+1E2F2", "U+1E2F3", "U+1E2F4",
      "U+1E2F5", "U+1E2F6", "U+1E2F7", "U+1E2F8", "U+1E2F9" } \cup
    { "U+1E950", "U+1E951", "U+1E952", "U+1E953", "U+1E954",
      "U+1E955", "U+1E956", "U+1E957", "U+1E958", "U+1E959" } \cup
    { "U+1FBF0", "U+1FBF1", "U+1FBF2", "U+1FBF3", "U+1FBF4",
      "U+1FBF5", "U+1FBF6", "U+1FBF7", "U+1FBF8", "U+1FBF9" }

\* ^\d{5}(-\d{4})?  up to the end of the text
zip_body(str) ==
    \/ Len(str) = 5 /\ \A i \in 1 .. 5 : str[i] \in Digits
    \/ /\ Len(str) = 10
       /\ \A i \in 1 .. 5 : str[i] \in Digits
       /\ str[6] = "-"
       /\ \A i \in 7 .. 10 : str[i] \in Digits

\* zip_pattern.match, ^\d{5}(-\d{4})?$ : $ also matches before a newline
\* that ends the text
zip_pattern(str) ==
    \/ zip_body(str)
    \/ /\ str # << >>
       /\ str[Len(str)] = "\n"
       /\ zip_body(SubSeq(str, 1, Len(str) - 1))

GeoResult(latitude, longitude, name, country, admin1) ==
    [latitude |-> latitude, longitude |-> longitude, name |-> name,
     country |-> country, admin1 |-> admin1]

GeoOutcome(kind, status, results) == [kind |-> kind, status |-> status, results |-> results]

\* what the geocoding request can end in
GeoOutcomes ==
    { GeoOutcome("response", 200,
                 << GeoResult(488, 23, "Paris", "France", "Ile-de-France"),
                    GeoResult(398, -896, "Springfield", "United States", "Illinois") >>),
      GeoOutcome("response", 200,
                 << GeoResult(-338, 1512, "Springfield", "Australia", "New South Wales"),
                    GeoResult(488, 23, "Paris", "France", "Ile-de-France"),
                    GeoResult(398, -896, "Springfield", "United States", "Illinois"),
                    GeoResult(535, -25, "Springfield", "United Kingdom", ""),
                    GeoResult(372, -933, "Springfield", "United States", "Missouri") >>),
      GeoOutcome("response", 200,
                 << GeoResult(488, 23, "Paris", "France", "Ile-de-France"),
                    GeoResult(-338, 1512, "Springfield", "", "") >>),
      GeoOutcome("response", 200, << >>),
      GeoOutcome("response", 500, << >>),
      GeoOutcome("error", 0, << >>),
      GeoOutcome("timeout", 0, << >>) }

\* r for r in results if r.get("country") == "United States"
RECURSIVE us_results(_)
us_results(results) ==
    IF results = << >> THEN << >>
    ELSE IF Head(results).country = "United States"
         THEN << Head(results) >> \o us_results(Tail(results))
         ELSE us_results(Tail(results))

\* the f-strings that format location_name
format_location_name(result) ==
    IF result.country = "United States" /\ result.admin1 # ""
    THEN << result.name, ", ", result.admin1 >>
    ELSE IF result.country # "" THEN << result.name, ", ", result.country >>
    ELSE << result.name >>

Raised == [raised |-> TRUE, latitude |-> 0, longitude |-> 0, location_name |-> << >>]

\* geocode_location without the preference for the United States
geocode_location_first(location, g) ==
    IF g.kind = "response" /\ g.status = 200 /\ g.results # << >>
    THEN LET result == g.results[1]
         IN  [raised |-> FALSE, latitude |-> result.latitude,
              longitude |-> result.longitude,
              location_name |-> format_location_name(result)]
    ELSE Raised

\* WeatherClient.geocode_location when its request ends in g: the first
\* result, for a ZIP code the first in the United States if there is one;
\* everything else raises ValueError
geocode_location(location, g) ==
    IF g.kind = "response" /\ g.status = 200 /\ g.results # << >>
    THEN LET preferred == IF zip_pattern(strip(location)) /\ us_results(g.results) # << >>
                          THEN us_results(g.results)
                          ELSE g.results
             result == preferred[1]
         IN  [raised |-> FALSE, latitude |-> result.latitude,
              longitude |-> result.longitude,
              location_name |-> format_location_name(result)]
    ELSE Raised

SetupKinds == {"DriverSetupRequest", "UserDataResponse", "AbortDriverSetup"}
ZipPlus4 == << "6", "2", "7", "0", "1", "-", "1", "2", "3", "4" >>
SetupLocations ==
    { << >>, << " " >>, Zip62701, << " ", "P", "a", "r", "i", "s" >>,
      ZipPlus4 \o << " " >>, << "6", "2", "7", "0", "1", "1" >>,
      << "U+000C" >> \o Zip62701 \o << "U+00A0" >>,
      << "U+0666", "2", "7", "0", "1" >>,
      << "U+06F6", "U+06F2", "U+06F7", "U+06F0", "U+06F1" >> }
Units == {"fahrenheit", "celsius"}

\* the inputs handle_setup reads for a request of the kind: the location
\* text when the request carries one, the temperature unit unless it is an
\* abort, and for an abort whether the enum has the member
SetupTexts(kind, has_location) ==
    IF has_location /\ kind # "AbortDriverSetup" THEN SetupLocations ELSE { << >> }
SetupUnits(kind) == IF kind = "AbortDriverSetup" THEN {"fahrenheit"} ELSE Units
EnumMembers(kind) == IF kind = "AbortDriverSetup" THEN BOOLEAN ELSE {TRUE}

\* handle_setup has ended with result; the other calls stay suspended
Returned(result) == [setup EXCEPT !.result = result]

\* a handle_setup call suspended in an await of its try block, with its
\* local variables
SetupCall(pc, kind, location, unit) ==
    [pc |-> pc, kind |-> kind, location |-> location, unit |-> unit]

\* the suspended calls without the k-th
SetupsWithout(k) ==
    [ j \in 1 .. Len(setup.pending) - 1 |->
        IF j < k THEN setup.pending[j] ELSE setup.pending[j + 1] ]

\* handle_setup up to its first await, or to its return.  has_location says
\* whether the request carries a "location" value; user_cancelled whether
\* ucapi's IntegrationSetupError has the member USER_CANCELLED line 309
\* reads: without it the attribute access raises and nothing is returned.
SetupBegin(kind, has_location, location, unit, user_cancelled) ==
    /\ Serving
    /\ LET stripped == IF has_location THEN strip(location) ELSE << >>
           geocodes == CASE kind = "DriverSetupRequest" -> has_location /\ stripped # << >>
                         [] kind = "UserDataResponse" -> stripped # << >>
                         [] OTHER -> FALSE
       IN  IF geocodes
           THEN /\ Len(setup.pending) < MaxSetups
                /\ setup' = [setup EXCEPT !.pending =
                                Append(@, SetupCall("geocode", kind, stripped, unit))]
           ELSE setup' =
                  CASE kind = "DriverSetupRequest" -> Returned("RequestUserInput")
                    [] kind = "UserDataResponse" -> Returned("SetupError.OTHER")
                    [] kind = "AbortDriverSetup" ->
                         IF user_cancelled THEN Returned("SetupError.USER_CANCELLED")
                         ELSE Returned("raised AttributeError")
                    [] OTHER -> Returned("SetupError.OTHER")
    /\ UNCHANGED << CONFIG, config_file, self, connecting, main_pc, call, serviceVars,
                    device_state, configured, attributes, loopVars >>

\* the k-th suspended handle_setup once its geocode_location has ended: a
\* ValueError is answered with SetupError(OTHER); otherwise
\* WeatherClient(latitude, longitude, temperature_unit) is built, and what
\* that raises is answered the same way
SetupGeocoded(k, g) ==
    /\ k \in 1 .. Len(setup.pending)
    /\ setup.pending[k].pc = "geocode"
    /\ LET found == geocode_location(setup.pending[k].location, g)
       IN  /\ setup' = IF found.raised \/ ~Accepts(WeatherClientInitArgs, 3)
                       THEN [setup EXCEPT !.pending = SetupsWithout(k),
                                          !.result = "SetupError.OTHER"]
                       ELSE [setup EXCEPT !.pending[k].pc = "test"]
           /\ call' = [op |-> "geocode_location", location |-> setup.pending[k].location,
                       g |-> g, found |-> found]
    /\ UNCHANGED << CONFIG, config_file, self, connecting, main_pc, serviceVars,
                    device_state, configured, attributes, loopVars >>

Next ==
    \/ MainLoad
    \/ MainInit
    \/ MainConnect
    \/ OnConnectNotReady
    \/ OnDisconnect
    \/ OnEnterStandby
    \/ OnExitStandbyNoEntity
    \/ \E hit \in BOOLEAN : OnSubscribe(hit)
    \/ OnUnsubscribe
    \/ \E kind \in SetupKinds, has_location \in BOOLEAN :
         \E location \in SetupTexts(kind, has_location), unit \in SetupUnits(kind),
            user_cancelled \in EnumMembers(kind) :
              SetupBegin(kind, has_location, location, unit, user_cancelled)
    \/ \E k \in 1 .. MaxSetups, g \in GeoOutcomes : SetupGeocoded(k, g)

Spec == Init /\ [][Next]_vars

\* C8: a boot on a complete stored configuration starts the update loop as
\* part of the boot: once main has returned there is an update task.
C8_BootStartsLoop ==
    (main_pc = "done" /\ is_configured(CONFIG)) => UPDATE_TASK # 0

-----------------------------------------------------------------------------
(* weather_entity.py and WeatherClient.get_current_weather on their own:   *)
(* update_weather and the command handler are called on an entity, a call  *)
(* suspended in its fetch leaving the others to run, with every kind of    *)
(* response the forecast endpoint can give; call records the last call     *)
(* that ended.                                                             *)

\* the icons directory: complete, complete with a cloud.png that cannot be
\* opened (a directory of that name), holding sun.png alone, or missing
IconDirs ==
    { [icons |-> IconFiles, unreadable |-> {}],
      [icons |-> IconFiles, unreadable |-> {"cloud.png"}],
      [icons |-> {"sun.png"}, unreadable |-> {}],
      [icons |-> {}, unreadable |-> {}] }

\* what the GET of the forecast endpoint can end in: a clear day, an
\* overcast night below zero, a code the tables do not hold, a 200 without
\* "current", a 404, and the failures of the transport; "connect" is a
\* connection that could not be opened (aiohttp.ClientConnectorError)
EntityHttpOutcomes ==
    { HttpOutcome("response", 200, TRUE, 0, 705, 1),
      HttpOutcome("response", 200, TRUE, 3, -105, 0),
      HttpOutcome("response", 200, TRUE, 4, 705, 0),
      HttpOutcome("response", 200, FALSE, 0, 0, 0),
      HttpOutcome("response", 404, FALSE, 0, 0, 0),
      HttpOutcome("timeout", 0, FALSE, 0, 0, 0),
      HttpOutcome("connect", 0, FALSE, 0, 0, 0),
      HttpOutcome("error", 0, FALSE, 0, 0, 0) }

\* get_current_weather, lines 134-141: the query of the request
forecast_params ==
    [temperature_unit |-> "fahrenheit", wind_speed_unit |-> "mph", timezone |-> "auto"]

\* get_current_weather: the session.get calls it makes for an outcome r
\* (one async with session.get, in no loop)
http_attempts(r) == 1

\* the commands the host can send, "refresh" and "toggle" among them
EntityCommands == Commands \cup {"refresh"}

\* The module imported and a WeatherEntity constructed for the location
\* name, with the files of its icons directory, in or out of
\* configured_entities; setup.unit is the temperature unit chosen at set-up
InitEntity ==
    /\ CONFIG = DefaultConfig
    /\ config_file = NoFile
    /\ main_pc = "load"
    /\ WEATHER_CLIENT = FALSE
    /\ WEATHER_ENTITY = NoEntity
    /\ device_state = ""
    /\ available = FALSE
    /\ \E dir \in IconDirs :
           self = WeatherEntity(StoredLocation.location_name, dir.icons, dir.unreadable)
    /\ configured \in BOOLEAN
    /\ attributes = initial_attributes(StoredLocation.location_name)
    /\ UPDATE_TASK = 0
    /\ tasks = << >>
    /\ inflight = << >>
    /\ current_hour = 0
    /\ pushed = NoPush
    /\ \E unit \in {"fahrenheit", "celsius"} : setup = [NoSetup EXCEPT !.unit = unit]
    /\ connecting = 0
    /\ scen = Scen("idle", 0)
    /\ call = NoCall

entityFrame ==
    << CONFIG, config_file, self, connecting, main_pc, setup, serviceVars, device_state, configured,
       UPDATE_TASK, tasks, current_hour, scen >>

\* a call on the entity suspended in its fetch; current_state is the local
\* variable of the PLAY_PAUSE branch, "" for the callers that have none
EntityCall(kind, current_state) ==
    [kind |-> kind, task |-> 0, stale |-> FALSE, current_state |-> current_state]

\* update_weather is called: it runs to its await of get_current_weather
UpdateWeather ==
    /\ ~self.none
    /\ HandlersInFlight < MaxHandlers
    /\ inflight' = Append(inflight, EntityCall("update_weather", ""))
    /\ pushed' = NoPush
    /\ UNCHANGED << entityFrame, attributes, call >>

\* a command is handed to weather_command_handler: it runs to its return
\* (call records the command), or to its await of update_weather
EntityCommand(cmd) ==
    /\ ~self.none
    /\ LET h == weather_command_handler(cmd, attributes)
       IN  /\ h.awaits => HandlersInFlight < MaxHandlers
           /\ attributes' = h.attributes
           /\ pushed' = h.pushes
           /\ inflight' =
                 IF h.awaits
                 THEN Append(inflight,
                             EntityCall(cmd, IF cmd = "play_pause"
                                             THEN attributes.state ELSE ""))
                 ELSE inflight
           /\ call' = IF h.awaits THEN call
                      ELSE [op |-> "command", cmd |-> cmd, status |-> h.status,
                            fetches |-> 0, returned |-> TRUE, fault |-> "none",
                            current_state |-> attributes.state,
                            before |-> attributes, after |-> h.attributes,
                            pushes |-> h.pushes]
    /\ UNCHANGED entityFrame

\* the fetch of a suspended call ends in r, contains behaving as fault says:
\* the call runs to its end; call records it with the attributes before and
\* after the step
EntityFetchDone(k, r, fault) ==
    /\ k \in 1 .. Len(inflight)
    /\ LET e == inflight[k]
           h == resumed(e.kind, self, r, fault)
       IN  /\ inflight' = Completed(k)
           /\ attributes' = h.attributes
           /\ pushed' = h.pushes
           /\ call' =
                 IF e.kind = "update_weather"
                 THEN [op |-> "update_weather", r |-> r, fault |-> fault,
                       weather_data |-> get_current_weather(r),
                       params |-> forecast_params, attempts |-> http_attempts(r),
                       returned |-> ~h.raised,
                       before |-> attributes, after |-> h.attributes,
                       pushes |-> h.pushes]
                 ELSE [op |-> "command", cmd |-> e.kind, status |-> h.status,
                       fetches |-> 1, returned |-> ~h.raised, fault |-> fault,
                       current_state |-> e.current_state,
                       before |-> attributes, after |-> h.attributes,
                       pushes |-> h.pushes]
    /\ UNCHANGED entityFrame

NextEntity ==
    \/ UpdateWeather
    \/ \E cmd \in EntityCommands : EntityCommand(cmd)
    \/ \E k \in 1 .. MaxHandlers, r \in EntityHttpOutcomes, fault \in Faults :
           EntityFetchDone(k, r, fault)

EntitySpec == InitEntity /\ [][NextEntity]_vars

\* the attributes are those of a successful reconcile
Succeeded(attrs) ==
    attrs.media_album \notin {"Fetching weather...", "Data unavailable", "Update failed"}

UpdateReturned == call.op = "update_weather" /\ call.fault = "none"
FetchFailed == UpdateReturned /\ IsNone(call.weather_data)

\* the names of the icons directory that can be opened and read
Readable(entity) == entity.icons \ entity.unreadable

C12_FailureKeepsPowerState ==
    (call.op = "update_weather" /\ (call.fault # "none" \/ IsNone(call.weather_data))
        /\ call.before.state = "ON")
    => call.after.state = "ON"

\* C13: update_weather returns normally for a successful fetch, a failed
\* fetch and an exception raised during the cycle, and every outcome that is
\* not a success leaves the subtitles "N/A" and "Data unavailable".
C13_ReconcileTotalAndDegraded ==
    call.op = "update_weather" =>
        /\ call.returned
        /\ (call.fault # "none" \/ IsNone(call.weather_data)) =>
              /\ call.after.media_artist = Txt("N/A")
              /\ call.after.media_album = "Data unavailable"

\* C14: one fetch retries exactly once when its first attempt cannot open
\* the connection, and makes exactly one attempt on a timeout or any other
\* failure of the network.
C14_RetryOnceOnTransient ==
    call.op = "update_weather" =>
        /\ call.r.kind = "connect" => call.attempts = 2
        /\ call.r.kind \in {"timeout", "error"} => call.attempts = 1

\* C15: a response with a status other than 200, or a 200 response without
\* the "current" object, is a fetch failure: no snapshot is returned and the
\* reconcile shows the degraded state.
C15_MissingCurrentIsFailure ==
    (UpdateReturned /\ call.r.kind = "response"
        /\ (call.r.status # 200 \/ ~call.r.has_current))
    => /\ IsNone(call.weather_data)
       /\ call.after.media_album = "Data unavailable"

\* the degree sign U+00B0 and the letter of the unit
UnitSuffix(unit) == IF unit = "celsius" THEN << 176, 67 >> ELSE << 176, 70 >>

\* C17: the forecast request asks for the temperature unit chosen for the
\* location, and the formatted temperature ends in the degree sign and F for
\* Fahrenheit, C for Celsius.
C17_UnitFollowsConfiguration ==
    (UpdateReturned /\ ~IsNone(call.weather_data)) =>
        /\ call.params.temperature_unit = setup.unit
        /\ call.weather_data.temperature.suffix = UnitSuffix(setup.unit)

-----------------------------------------------------------------------------
(* Properties of the set-up, checked under Spec.                       *)

\* five digits, optionally followed by a hyphen and four digits
PostalCode(query) ==
    \E n \in {5, 10} :
        /\ Len(query) = n
        /\ \A i \in 1 .. 5 : query[i] \in Digits
        /\ n = 10 => query[6] = "-" /\ \A i \in 7 .. 10 : query[i] \in Digits

USPositions(results) ==
    { i \in 1 .. Len(results) : results[i].country = "United States" }

\* the candidate the claim selects
Selected(query, results) ==
    IF PostalCode(query) /\ USPositions(results) # {}
    THEN results[CHOOSE i \in USPositions(results) :
                     \A j \in USPositions(results) : i <= j]
    ELSE results[1]

Geocoded == call.op = "geocode_location" /\ ~call.found.raised

\* C16: for a postal code whose candidates include a result in the United
\* States the first such result is selected, whatever its position; without
\* one, or for a query that is not a postal code, results[0] is selected.
C16_PostalCodePrefersUS ==
    Geocoded =>
        LET chosen == Selected(call.location, call.g.results)
        IN  /\ call.found.latitude = chosen.latitude
            /\ call.found.longitude = chosen.longitude
            /\ call.found.location_name[1] = chosen.name

\* C16, its case: a postal code, results[0] outside the United States, the
\* third candidate selected
C16_Witness ==
    /\ Geocoded
    /\ PostalCode(call.location)
    /\ Len(call.g.results) = 5
    /\ USPositions(call.g.results) = {3, 5}
    /\ call.found.latitude = call.g.results[3].latitude
    /\ call.found.location_name = << "Springfield", ", ", "Illinois" >>

\* C19: set-up answers SetupError only when geocoding or the validation
\* fetch failed: a set-up whose geocoding succeeded is not answered at that
\* point, it goes on to its validation fetch (and from there to
\* SetupComplete and the stored location).
C19_SetupErrorOnlyOnFailure ==
    [][ Len(setup'.pending) < Len(setup.pending) => call'.found.raised ]_vars

\* C20: the service manages the one configured location: once it has booted
\* on a stored location, one weather entity is available, and the client and
\* the entity are those of that location.
C20_ServesConfiguredLocation ==
    (main_pc = "done" /\ is_configured(CONFIG)) =>
        /\ WEATHER_CLIENT
        /\ HasEntity
        /\ available
        /\ WEATHER_ENTITY.location_name = CONFIG.location_name

-----------------------------------------------------------------------------
(* The update loop when update_weather meets an exception that is not a    *)
(* failure of the fetch: a statement of its try block raises.  Either its  *)
(* except branch completes and update_weather returns, or the push of that *)
(* branch raises again and the exception reaches weather_update_loop.      *)

\* weather_update_loop, lines 127-130: except Exception, sleep five minutes;
\* first_run is as it was, the exception came before line 120
cooled_down(t) == [t EXCEPT !.pc = "cooldown", !.delay = 5 * 60, !.prev = "error"]

\* the task's update_weather raised in its try block
LoopFetchFault(k, escaped, Hours) ==
    /\ k \in 1 .. Len(inflight)
    /\ inflight[k].kind = "loop"
    /\ ~CancelPending
    /\ LET e == inflight[k]
           t == tasks[e.task]
           fault == IF escaped THEN "always" ELSE "once"
       IN  /\ attributes' = update_weather(WEATHER_ENTITY, None, fault)
           /\ pushed' = update_weather_pushes(fault)
           /\ inflight' = Completed(k)
           /\ IF escaped
              THEN /\ tasks' = [tasks EXCEPT ![e.task] = cooled_down(t)]
                   /\ UNCHANGED current_hour
              ELSE IF t.first_run
              THEN /\ tasks' = [tasks EXCEPT ![e.task] =
                                  after_cycle(t, "error", current_hour)]
                   /\ UNCHANGED current_hour
              ELSE \E h \in Hours :
                   /\ tasks' = [tasks EXCEPT ![e.task] = after_cycle(t, "error", h)]
                   /\ current_hour' = h
           /\ scen' = Void
    /\ UNCHANGED << bootVars, serviceVars, device_state, configured, UPDATE_TASK >>

-----------------------------------------------------------------------------
(* The lookup of icon and description for a weather code: the tables of    *)
(* client.py as get_current_weather reads them, and the image the entity   *)
(* shows for the icon.                                                     *)

\* the largest weather code the lookup is given
MaxCode == 99
LookupCodes == 0 .. MaxCode

\* get_current_weather on a 200 response with the given weather_code and
\* is_day, then _get_icon_base64 on its icon, as update_weather does
Lookup(code, is_day) ==
    /\ ~self.none
    /\ LET weather_data == get_current_weather(HttpOutcome("response", 200, TRUE, code, 705, is_day))
       IN  call' = [op |-> "lookup", code |-> code, is_day |-> is_day,
                    raised |-> IsNone(weather_data),
                    icon |-> weather_data.icon,
                    description |-> weather_data.description,
                    image |-> get_icon_base64(self, weather_data.icon)]
    /\ UNCHANGED << entityFrame, attributes, pushed, inflight >>

NextLookup == \E code \in LookupCodes, is_day \in {0, 1} : Lookup(code, is_day)

LookupSpec == InitEntity /\ [][NextLookup]_vars

LookedUp == call.op = "lookup"

\* C24: a code outside the lookup table, by day or by night, does not make
\* the lookup fail and gives the generic cloud icon with the fallback
\* description (the image being that of a cloud.png that can be read).
C24_UnknownCodeIsCloud ==
    (LookedUp /\ call.code \notin DOMAIN WEATHER_DESCRIPTIONS) =>
        /\ ~call.raised
        /\ call.icon = "cloud.png"
        /\ call.description = "Unknown"
        /\ "cloud.png" \in Readable(self) => call.image = "cloud.png"

\* the code domain the tables are to cover
WMODomain ==
    {0, 1, 2, 3, 45, 48, 51, 53, 55, 56, 57, 61, 63, 65, 66, 67, 71, 73, 75, 77,
     80, 81, 82, 85, 86, 87, 88, 95, 96, 99}

\* C25: for every code of the WMO domain and both day/night flags the lookup
\* gives the non-empty icon and description its tables define for the code:
\* the code is a key of the day, night and description tables.
C25_TablesCoverDomain ==
    (LookedUp /\ call.code \in WMODomain) =>
        /\ call.code \in DOMAIN WEATHER_ICONS_DAY
        /\ call.code \in DOMAIN WEATHER_ICONS_NIGHT
        /\ call.code \in DOMAIN WEATHER_DESCRIPTIONS
        /\ call.icon = IF call.is_day = 1 THEN WEATHER_ICONS_DAY[call.code]
                       ELSE WEATHER_ICONS_NIGHT[call.code]
        /\ call.description = WEATHER_DESCRIPTIONS[call.code]
        /\ call.icon # "" /\ call.description # ""

-----------------------------------------------------------------------------
(* The power state across commands and refreshes, checked under EntitySpec. *)

\* the last call that ended was the command cmd, and it returned
Commanded(cmd) == call.op = "command" /\ call.cmd = cmd /\ call.returned

\* no command is suspended in its fetch
NoCommandPending ==
    \A k \in 1 .. Len(inflight) : inflight[k].kind = "update_weather"

\* C27: after a user OFF command the state stays OFF until the next ON or
\* PLAY_PAUSE: an update_weather of a scheduled tick or of on_connect does
\* not turn it back ON.
C27_OffUntilUserCommand ==
    [][ ( /\ Commanded("off")
          /\ attributes.state = "OFF"
          /\ NoCommandPending
          /\ call'.op = "update_weather" )
        => attributes'.state = "OFF" ]_vars

\* C28: when the handler of PLAY_PAUSE returns the state is the opposite of
\* the state the command found, whatever the outcome of the fetch it starts;
\* the handler of ON always returns with the state ON.
C28_PlayPauseToggles ==
    /\ Commanded("play_pause") => call.after.state = toggled(call.current_state)
    /\ Commanded("on") => call.after.state = "ON"

-----------------------------------------------------------------------------
(* The device state reported at boot, checked under Spec.              *)

\* the step in which main decides between auto-connect and DISCONNECTED
MainDecides == main_pc = "connect" /\ main_pc' = "done"

\* C29: the device state follows the readiness of the services: a boot
\* without a complete configuration reports DISCONNECTED, a boot on a
\* complete one reports CONNECTED, CONNECTED is reported only once client
\* and entity exist and the entity is available, and a failure to create
\* them reports ERROR.
C29_StateFollowsReadiness ==
    [][ /\ (MainDecides /\ ~is_configured(CONFIG)) => device_state' = "DISCONNECTED"
        /\ (MainDecides /\ is_configured(CONFIG)) => device_state' = "CONNECTED"
        /\ device_state' = "CONNECTED" => (WEATHER_CLIENT' /\ HasEntity' /\ available')
        /\ (MainDecides /\ is_configured(CONFIG) /\ ~(WEATHER_CLIENT' /\ HasEntity'))
               => device_state' = "ERROR"
      ]_vars

-----------------------------------------------------------------------------
(* EXIT_STANDBY on the driver as it runs, checked under Spec.              *)

\* the update task exists, has not ended and is not being cancelled
LiveLoop ==
    /\ UPDATE_TASK # 0
    /\ tasks[UPDATE_TASK].pc # "done"
    /\ ~tasks[UPDATE_TASK].cancel

\* C26: once a subscription to the weather entity or an EXIT_STANDBY has
\* been handled a live update loop exists, in every interleaving of the
\* events; stated for an EXIT_STANDBY after a boot on a complete
\* configuration.
C26_HandledStartLeavesLiveLoop ==
    [][ ( /\ call' # call
          /\ call'.op = "on_exit_standby"
          /\ call'.main = "done"
          /\ call'.is_configured ) => LiveLoop' ]_vars

-----------------------------------------------------------------------------
(* The pushes of the entity, checked under EntitySpec.                     *)

\* C9: update_attributes is called only while the sink holds the entity, on
\* every path: the branches of update_weather and the ON / OFF / PLAY_PAUSE
\* command handler.
C9_PushOnlyWhileConfigured == pushed # NoPush => configured

\* C10: reconciling the same successful snapshot twice in a row gives the
\* same attributes both times and pushes only the first time: a call that
\* computes the attributes the entity already has pushes nothing.
C10_SecondReconcileSilent ==
    ( /\ UpdateReturned
      /\ ~IsNone(call.weather_data)
      /\ call.before = call.after )
    => call.pushes = NoPush

-----------------------------------------------------------------------------
(* The cadence policy: get_smart_update_interval applied to the hour that  *)
(* datetime.now() gives, over every local hour.                            *)

\* one call of get_smart_update_interval, the clock reading the hour h
\* (after: the hour of the call before)
SmartInterval(h) ==
    /\ current_hour' = h
    /\ call' = [op |-> "get_smart_update_interval", hour |-> h,
                interval |-> get_smart_update_interval(h), after |-> current_hour]
    /\ UNCHANGED << CONFIG, config_file, self, connecting, main_pc, setup, serviceVars, device_state,
                    configured, attributes, UPDATE_TASK, tasks, inflight, pushed, scen >>

NextCadence == \E h \in AllHours : SmartInterval(h)

CadenceSpec == Init /\ [][NextCadence]_vars

NightHours == {23, 0, 1, 2, 3, 4, 5}
PeakHours == {6, 7, 8, 17, 18, 19}
Policy(h) == IF h \in NightHours THEN 14400
             ELSE IF h \in PeakHours THEN 1800
             ELSE 3600

\* C7: the interval is a function of the local hour alone, whatever came
\* before: 14400 s for the hours 23 and 0-5, 1800 s for 6-8 and 17-19,
\* 3600 s otherwise.
C7_CadenceByHour ==
    call.op = "get_smart_update_interval" => call.interval = Policy(call.hour)

\* C7, its case: the call at 23 h, after a call at 22 h that gave one hour
C7_Witness ==
    /\ call.op = "get_smart_update_interval"
    /\ call.hour = 23
    /\ call.after = 22
    /\ call.interval = 14400

=============================================================================
